---- MODULE Spec2Model ----
(***************************************************************************)
(* Request dispatch of vulppi-dev/kit: tunnel, getIdentities,              *)
(* getMiddlewares, sortCompiledRoutes and the middleware chain.            *)
(*                                                                         *)
(* The repository holds two revisions of the dispatcher:                   *)
(*   "loop" : src/unnamed/part_000        (for-loop over the middleware,   *)
(*                                         one Promise per step)           *)
(*   "rec"  : src/src/@types/internal.d.ts (callRecursiveMiddlewares)      *)
(* Both are modelled; the variable impl says which one a behaviour runs.   *)
(*                                                                         *)
(* A string is a sequence of one-character strings; CodeOf gives the       *)
(* UTF-16 code unit JavaScript compares by.                                *)
(***************************************************************************)
EXTENDS Integers, Sequences, FiniteSets, TLC

\* ------------------------------------------------------------------ bounds
\* at most this many route identities are discovered by one glob
MaxRoutes == 3
\* at most this many middleware files are discovered by one glob
MaxMw == 2
\* a middleware invocation calls its continuation at most this many times
MaxNext == 2
\* at most this many invocations (middleware + route handler) per request
MaxCalls == 3

\* ----------------------------------------------------------------- strings
CodeOf ==
  [c \in {".", "/", "A", "B", "I", "[", "]", "a", "b", "i", "m", "r", "w", "x"} |->
     CASE c = "." -> 46 [] c = "/" -> 47 [] c = "A" -> 65 [] c = "B" -> 66
       [] c = "I" -> 73 [] c = "[" -> 91 [] c = "]" -> 93 [] c = "a" -> 97
       [] c = "b" -> 98 [] c = "i" -> 105 [] c = "m" -> 109 [] c = "r" -> 114
       [] c = "w" -> 119 [] c = "x" -> 120]

\* String.prototype.toLowerCase
toLowerCase(s) ==
  [k \in 1..Len(s) |->
     CASE s[k] = "A" -> "a" [] s[k] = "B" -> "b" [] s[k] = "I" -> "i"
       [] OTHER -> s[k]]

\* the relational operator < on two strings: code units, a proper prefix first
RECURSIVE StrLess(_, _)
StrLess(s, t) ==
  IF t = <<>> THEN FALSE
  ELSE IF s = <<>> THEN TRUE
  ELSE IF CodeOf[Head(s)] < CodeOf[Head(t)] THEN TRUE
  ELSE IF CodeOf[Head(s)] > CodeOf[Head(t)] THEN FALSE
  ELSE StrLess(Tail(s), Tail(t))

\* String.prototype.split('/'): the list of segments, never empty
RECURSIVE SplitFrom(_, _, _)
SplitFrom(s, k, cur) ==
  IF k > Len(s) THEN <<cur>>
  ELSE IF s[k] = "/" THEN <<cur>> \o SplitFrom(s, k + 1, <<>>)
  ELSE SplitFrom(s, k + 1, Append(cur, s[k]))

Split(s) == SplitFrom(s, 1, <<>>)

\* Array.prototype.join('/')
RECURSIVE JoinSlash(_)
JoinSlash(l) ==
  IF l = <<>> THEN <<>>
  ELSE IF Len(l) = 1 THEN l[1]
  ELSE l[1] \o <<"/">> \o JoinSlash(Tail(l))

\* String.prototype.includes
Includes(s, sub) ==
  \E k \in 0..(Len(s) - Len(sub)) : SubSeq(s, k + 1, k + Len(sub)) = sub

\* x[0] === '[' for a segment x that may be undefined (index past the end)
IsDynamicAt(segs, k) ==
  /\ k <= Len(segs)
  /\ segs[k] # <<>>
  /\ segs[k][1] = "["

\* ------------------------------------------------------ sortCompiledRoutes
\* the for loop of sortCompiledRoutes from index k (1-based); 0 = fell through
RECURSIVE SegmentLoop(_, _, _)
SegmentLoop(aSlipt, bSlipt, k) ==
  IF k > Len(aSlipt) THEN 0
  ELSE IF IsDynamicAt(aSlipt, k) /\ IsDynamicAt(bSlipt, k)
    THEN SegmentLoop(aSlipt, bSlipt, k + 1)
  ELSE IF IsDynamicAt(aSlipt, k) THEN 1
  ELSE IF IsDynamicAt(bSlipt, k) THEN -1
  ELSE SegmentLoop(aSlipt, bSlipt, k + 1)

sortCompiledRoutes(a, b) ==
  LET byLoop == SegmentLoop(Split(a.pathname), Split(b.pathname), 1)
  IN IF byLoop # 0 THEN byLoop
     ELSE IF StrLess(toLowerCase(a.route), toLowerCase(b.route)) THEN -1
     ELSE IF StrLess(toLowerCase(b.route), toLowerCase(a.route)) THEN 1
     ELSE Len(b.pathname) - Len(a.pathname)

\* ------------------------------------------------------- path utilities
\* normalizePath: runs of slashes become one slash, leading slashes go
RECURSIVE CollapseSlashes(_)
CollapseSlashes(s) ==
  IF Len(s) < 2 THEN s
  ELSE IF s[1] = "/" /\ s[2] = "/" THEN CollapseSlashes(Tail(s))
  ELSE <<s[1]>> \o CollapseSlashes(Tail(s))

RECURSIVE StripLeadingSlashes(_)
StripLeadingSlashes(s) ==
  IF s # <<>> /\ s[1] = "/" THEN StripLeadingSlashes(Tail(s)) ELSE s

normalizePath(path) == StripLeadingSlashes(CollapseSlashes(path))

\* join of path/posix on arguments without "." and ".." segments
join(parts) == CollapseSlashes(JoinSlash(parts))

\* String.prototype.replace(sub, ''): the first occurrence of sub is removed
ReplaceFirst(s, sub) ==
  IF ~Includes(s, sub) THEN s
  ELSE LET k == CHOOSE k \in 0..(Len(s) - Len(sub)) :
                  /\ SubSeq(s, k + 1, k + Len(sub)) = sub
                  /\ \A j \in 0..(k - 1) : SubSeq(s, j + 1, j + Len(sub)) # sub
       IN SubSeq(s, 1, k) \o SubSeq(s, k + Len(sub) + 1, Len(s))

\* ------------------------------------------------- the compiled project
\* join(process.cwd(), compiledFolder, compiledRoutes), here "/w/r"
basePath == join(<< <<"/", "w">>, <<"r">> >>)

middlewareFile == <<"m", "i", "d", "d", "l", "e", "w", "a", "r", "e", ".", "m", "j", "s">>

\* the identities a project may hold: AutoGeneratedVars (pathname, route)
IdentityPool ==
  { [pathname |-> <<"a", "/", "b">>,      route |-> <<"a", "/", "b">>],
    [pathname |-> <<"a", "/", "[", "i", "]">>, route |-> <<"a", "/", "[", "i", "]">>],
    [pathname |-> <<"a", "/", "[", "I", "]">>, route |-> <<"a", "/", "[", "I", "]">>],
    [pathname |-> <<"x">>,                route |-> <<"x">>],
    [pathname |-> <<"[", "i", "]">>,      route |-> <<"[", "i", "]">>] }

\* the directories a project may hold a middleware.mjs in ("" is the root)
AnchorPool == { <<>>, <<"a">>, <<"a", "/", "b">> }

\* what glob returns for a middleware.mjs in directory anchor (globFindAll
\* joins, globs and maps normalizePath over the result)
MiddlewarePathOf(anchor) == normalizePath(join(<<basePath, anchor, middlewareFile>>))

Paths == { <<"a", "/", "b">>, <<"a", "/", "%", "7", "8">>, <<"x">>, <<"x", "/", "x", "/", "x">> }

Methods == {"GET", "PATCH"}

\* all orders in which glob may list the files of a directory tree
Orders(S) ==
  { q \in [1..Cardinality(S) -> S] : \A i, j \in 1..Cardinality(S) : i # j => q[i] # q[j] }

Range(q) == { q[i] : i \in 1..Len(q) }

\* paramExtract.test(path): the template's pattern matches exactly the paths
\* with its segment count whose literal segments are equal
paramExtractTest(m, path) ==
  LET t == Split(m.pathname)
      p == Split(path)
  IN /\ Len(t) = Len(p)
     /\ \A k \in 1..Len(t) :
          IF IsDynamicAt(t, k) THEN p[k] # <<>> ELSE t[k] = p[k]

\* ----------------------------------------------------------- getIdentities
\* Array.prototype.filter
RECURSIVE FilterMatching(_, _)
FilterMatching(modules, path) ==
  IF modules = <<>> THEN <<>>
  ELSE IF paramExtractTest(Head(modules), path)
    THEN <<Head(modules)>> \o FilterMatching(Tail(modules), path)
  ELSE FilterMatching(Tail(modules), path)

\* Array.prototype.sort(sortCompiledRoutes): a stable insertion sort
RECURSIVE InsertSorted(_, _)
InsertSorted(x, l) ==
  IF l = <<>> THEN <<x>>
  ELSE IF sortCompiledRoutes(l[Len(l)], x) > 0
    THEN Append(InsertSorted(x, SubSeq(l, 1, Len(l) - 1)), l[Len(l)])
  ELSE Append(l, x)

RECURSIVE SortRoutes(_)
SortRoutes(l) ==
  IF l = <<>> THEN <<>>
  ELSE InsertSorted(l[Len(l)], SortRoutes(SubSeq(l, 1, Len(l) - 1)))

getIdentities(route, identitiesModules) ==
  SortRoutes(FilterMatching(identitiesModules, route))

\* ---------------------------------------------------------- getMiddlewares
\* pathname.split('/').map((_, i, l) => i > 0 ? l.slice(0, i + 1).join('/') : '/')
CumulativePathnames(pathname) ==
  LET l == Split(pathname)
  IN [i \in 1..Len(l) |-> IF i > 1 THEN JoinSlash(SubSeq(l, 1, i)) ELSE <<"/">>]

\* part_000: validMiddlewarePaths keeps p when some pathname is a substring
IsValidMiddlewarePathLoop(p, pathnames) ==
  \E k \in 1..Len(pathnames) : Includes(p, pathnames[k])

\* internal.d.ts: the pathnames are mapped to middleware.mjs paths and compared
IsValidMiddlewarePathRec(p, pathnames) ==
  \E k \in 1..Len(pathnames) :
     p = normalizePath(join(<<basePath, pathnames[k], middlewareFile>>))

RECURSIVE FilterMiddlewarePaths(_, _, _)
FilterMiddlewarePaths(version, middlewarePaths, pathnames) ==
  IF middlewarePaths = <<>> THEN <<>>
  ELSE LET p == Head(middlewarePaths)
           keep == IF version = "loop" THEN IsValidMiddlewarePathLoop(p, pathnames)
                   ELSE IsValidMiddlewarePathRec(p, pathnames)
           rest == FilterMiddlewarePaths(version, Tail(middlewarePaths), pathnames)
       IN IF keep THEN <<p>> \o rest ELSE rest

\* the list of { handler, pathname } in the order of the glob result
getMiddlewares(version, pathname, middlewarePaths) ==
  LET valid == FilterMiddlewarePaths(version, middlewarePaths, CumulativePathnames(pathname))
  IN [k \in 1..Len(valid) |-> [file |-> valid[k], pathname |-> ReplaceFirst(valid[k], basePath)]]

\* ------------------------------------------------------------------ values
\* undefined / null
Nothing == [kind |-> "nothing"]

StaticResponse == [kind |-> "response", status |-> 200, origin |-> "static", detail |-> <<>>]
NotFoundResponse == [kind |-> "response", status |-> 404, origin |-> "tunnel", detail |-> <<>>]
\* a dispatcher that answers a method without handler like an unknown path
NotAllowedAnsweredNotFound == [kind |-> "response", status |-> 404, origin |-> "tunnel", detail |-> <<>>]
MethodNotAllowedResponse == [kind |-> "response", status |-> 405, origin |-> "tunnel", detail |-> <<>>]
NoContentResponse == [kind |-> "response", status |-> 204, origin |-> "tunnel", detail |-> <<>>]
\* the catch block's answer to an Error: status 500, body { message }
InternalErrorResponse(message) ==
  [kind |-> "response", status |-> 500, origin |-> "tunnel", detail |-> message]

\* what invocation c answers with when it returns a response of its own
OwnResponse(c) == [kind |-> "response", status |-> 200, origin |-> "call", detail |-> <<c>>]
\* a response-shaped object a handler throws
ThrownResponse(c) == [kind |-> "response", status |-> 403, origin |-> "thrown", detail |-> <<c>>]

\* new Error(`Middleware handler timeout: ${middleware.pathname}`)
TimeoutError(pathname) == [kind |-> "Error", message |-> <<"Middleware handler timeout: ">> \o pathname]
\* an Error a middleware or handler throws
ThrownError(c) == [kind |-> "Error", message |-> <<"thrown by ", c>>]
\* a thrown value that is neither an Error nor an object
ThrownPrimitive == [kind |-> "primitive"]

IsResponse(v) == v.kind = "response"

\* the export names a route module is read by, and what an export can be
ModulePool ==
  { [GET |-> "function", PATCH |-> "undefined", ALL |-> "undefined", default |-> "undefined"],
    [GET |-> "undefined", PATCH |-> "undefined", ALL |-> "function", default |-> "undefined"],
    [GET |-> "undefined", PATCH |-> "undefined", ALL |-> "undefined", default |-> "function"],
    [GET |-> "undefined", PATCH |-> "value", ALL |-> "function", default |-> "undefined"],
    [GET |-> "undefined", PATCH |-> "undefined", ALL |-> "undefined", default |-> "undefined"] }

Export(routeModule, name) == [type |-> routeModule[name], export |-> name]

Truthy(x) == x.type # "undefined"

\* part_000 line 79: routeModule[method]
HandlerOfLoop(routeModule, method) == Export(routeModule, method)

\* internal.d.ts lines 162-164: routeModule[method] || routeModule['ALL'] || routeModule.default
HandlerOfRec(routeModule, method) ==
  IF Truthy(Export(routeModule, method)) THEN Export(routeModule, method)
  ELSE IF Truthy(Export(routeModule, "ALL")) THEN Export(routeModule, "ALL")
  ELSE Export(routeModule, "default")

HandlerOf(version, routeModule, method) ==
  IF version = "loop" THEN HandlerOfLoop(routeModule, method)
  ELSE HandlerOfRec(routeModule, method)

\* routes.find((r) => typeof r.handler === 'function'): its index, 0 for undefined
FindRoute(rs) ==
  IF \E k \in 1..Len(rs) : rs[k].handler.type = "function"
  THEN CHOOSE k \in 1..Len(rs) :
         /\ rs[k].handler.type = "function"
         /\ \A j \in 1..(k - 1) : rs[j].handler.type # "function"
  ELSE 0

\* _.merge(context.custom, c) on the data the middleware of this model pass:
\* { last: <step>, seen: { <step>: true } }; nested keys are united, the
\* scalar is overwritten
CustomDataOf(step) == [last |-> step, seen |-> {step}]

\* a chain that replaces the custom data by the latest contribution
assignCustom(custom, c) == [last |-> c.last, seen |-> c.seen]

merge(custom, c) == [last |-> c.last, seen |-> custom.seen \cup c.seen]

\* ---------------------------------------------------------------- state
VARIABLES
  impl,               \* "loop" (part_000) or "rec" (internal.d.ts)
  pc,                 \* where tunnel is
  context,            \* the IntRequest: path, method, params, custom
  scope,              \* the locals of tunnel and its callees that hold a value
  identitiesModules,  \* getIdentities: the modules in the order glob gave
  identities,         \* tunnel: the sorted structural matches
  routes,             \* tunnel: { handler, identity } per identity
  route,              \* tunnel: the chosen route, <<>> when undefined
  middlewarePaths,    \* getMiddlewares: the files in the order glob gave
  middlewares,        \* tunnel: the applicable middleware
  calls,              \* the invocations of middleware and of the route handler
  sent,               \* the responses handed to sendResponse, in order
  uncaught,           \* errors thrown where no try block of tunnel catches them
  staticFile,         \* tunnel: what globFind gave in the static folder, while in scope
  sortArgs,           \* three identities handed to sortCompiledRoutes
  sortRes             \* the comparator's results on them

vars == <<staticFile, impl, pc, context, scope, identitiesModules, identities, routes, route,
          middlewarePaths, middlewares, calls, sent, uncaught, sortArgs, sortRes>>

Impls == {"loop", "rec"}

NoSort == [ab |-> 0, ba |-> 0, bc |-> 0, ac |-> 0, done |-> FALSE]

tunnelVars == <<staticFile, impl, pc, context, scope, identitiesModules, identities, routes, route,
                middlewarePaths, middlewares, calls, sent, uncaught>>

\* ------------------------------------------- the comparator on its own
InitSort ==
  /\ sortArgs \in [a : IdentityPool, b : IdentityPool, c : IdentityPool]
  /\ sortRes = NoSort
  /\ impl = "rec" /\ pc = "idle"
  /\ context = [path |-> <<>>, method |-> "GET", params |-> <<>>, custom |-> [last |-> 0, seen |-> {}]]
  /\ scope = {} /\ identitiesModules = <<>> /\ identities = <<>> /\ routes = <<>>
  /\ route = <<>> /\ middlewarePaths = <<>> /\ middlewares = <<>> /\ calls = <<>>
  /\ sent = <<>> /\ uncaught = {} /\ staticFile = "none"

Compare ==
  /\ ~sortRes.done
  /\ sortRes' = [ab |-> sortCompiledRoutes(sortArgs.a, sortArgs.b),
                 ba |-> sortCompiledRoutes(sortArgs.b, sortArgs.a),
                 bc |-> sortCompiledRoutes(sortArgs.b, sortArgs.c),
                 ac |-> sortCompiledRoutes(sortArgs.a, sortArgs.c),
                 done |-> TRUE]
  /\ UNCHANGED <<sortArgs, tunnelVars>>

NextSort == Compare

SpecSort == InitSort /\ [][NextSort]_vars

\* --------------------------------------------------------------- tunnel
InitialCustom == [last |-> 0, seen |-> {}]

Init ==
  /\ impl \in Impls
  /\ pc = "start"
  /\ context \in [path : Paths, method : Methods, params : {<<>>}, custom : {InitialCustom}]
  /\ scope = {} /\ identitiesModules = <<>> /\ identities = <<>> /\ routes = <<>>
  /\ route = <<>> /\ middlewarePaths = <<>> /\ middlewares = <<>> /\ calls = <<>>
  /\ sent = <<>> /\ uncaught = {} /\ staticFile = "none"
  /\ sortArgs = [a |-> <<>>, b |-> <<>>, c |-> <<>>]
  /\ sortRes = NoSort

\* the catch block of tunnel (lines 157-178 / 215-236) on the value caught:
\* what it hands to sendResponse (none when it rethrows) and where it goes
CatchSends(error) ==
  IF error.kind = "Error" THEN <<InternalErrorResponse(error.message)>>
  ELSE IF error.kind = "response" THEN <<error>>
  ELSE <<>>

\* sendResponse (lines 181-190 / 239-248) awaits the response sink; it returns
\* or, when the sink fails, throws
SendOutcomes == {"returns", "throws"}

SendError == [kind |-> "Error", message |-> <<"send failed">>]

\* return await sendResponse(resData, ...) outside the try block (the static
\* file) or in the catch block: a throw rejects tunnel
SendOutsideTry(resData, outcome) ==
  /\ sent' = Append(sent, resData)
  /\ pc' = IF outcome = "returns" THEN "done" ELSE "rejected"

\* the catch block on the value caught: an Error and an object are answered,
\* anything else is thrown again
Catch(error, outcome) ==
  IF CatchSends(error) = <<>>
  THEN /\ pc' = "rejected"
       /\ UNCHANGED sent
  ELSE SendOutsideTry(CatchSends(error)[1], outcome)

\* return await sendResponse(resData, ...) inside the try block: a throw is
\* caught by the catch block, which calls sendResponse again
SendInTry(resData, outcome, again) ==
  IF outcome = "returns"
  THEN /\ sent' = Append(sent, resData)
       /\ pc' = "done"
  ELSE /\ sent' = Append(sent, resData) \o CatchSends(SendError)
       /\ pc' = IF again = "returns" THEN "done" ELSE "rejected"

\* what globFind and lookup can give for the path in the static folder: no
\* file, a file of a known mime type, a file whose mime type lookup does not know
StaticFiles == {"none", "mime", "no-mime"}

\* lines 23-25: await globFind(staticFolder, context.path)
StaticFind ==
  /\ pc = "start"
  /\ \E file \in StaticFiles : staticFile' = file
  /\ pc' = "static"
  /\ scope' = {"staticFile"}
  /\ UNCHANGED <<impl, context, identitiesModules, identities, routes, route,
                 middlewarePaths, middlewares, calls, sent, uncaught, sortArgs, sortRes>>

\* lines 26-42: a static file with a mime type is the response; without a file,
\* or without a mime type, tunnel goes on to the routes
StaticLookup ==
  /\ pc = "static"
  /\ \E outcome \in SendOutcomes :
       IF staticFile = "mime"
       THEN SendOutsideTry(StaticResponse, outcome)
       ELSE /\ pc' = "getIdentities"
            /\ UNCHANGED sent
  /\ staticFile' = "none"
  /\ scope' = {}
  /\ UNCHANGED <<impl, context, identitiesModules, identities, routes, route,
                 middlewarePaths, middlewares, calls, uncaught, sortArgs, sortRes>>

\* line 45 / 128: await getIdentities(context.path); glob lists the identity
\* files of the project in some order
GetIdentities ==
  /\ pc = "getIdentities"
  /\ \E files \in SUBSET IdentityPool :
       /\ Cardinality(files) <= MaxRoutes
       /\ \E order \in Orders(files) :
            /\ identitiesModules' = order
            /\ identities' = getIdentities(context.path, order)
  /\ scope' = {"identitiesModules", "identities"}
  /\ pc' = "identified"
  /\ UNCHANGED <<staticFile, impl, context, routes, route, middlewarePaths, middlewares, calls,
                 sent, uncaught, sortArgs, sortRes>>

\* lines 48-62 / 131-145: no identity matches
NotFound ==
  /\ pc = "identified"
  /\ identities = <<>>
  /\ \E outcome, again \in SendOutcomes : SendInTry(NotFoundResponse, outcome, again)
  /\ identitiesModules' = <<>>
  /\ scope' = {"identities"}
  /\ UNCHANGED <<staticFile, impl, context, identities, routes, route, middlewarePaths, middlewares,
                 calls, uncaught, sortArgs, sortRes>>

\* paramValues: the positional captures of the path under the identity
Captures(identity, path) ==
  LET t == Split(identity.pathname)
      p == Split(path)
      F[k \in 0..Len(t)] ==
        IF k = 0 THEN <<>>
        ELSE IF IsDynamicAt(t, k) /\ k <= Len(p) THEN Append(F[k - 1], p[k])
        ELSE F[k - 1]
  IN F[Len(t)]

\* paramKeys: the names of the bracketed segments of the template, in order
paramKeys(identity) ==
  LET t == Split(identity.pathname)
      F[k \in 0..Len(t)] ==
        IF k = 0 THEN <<>>
        ELSE IF IsDynamicAt(t, k) THEN Append(F[k - 1], SubSeq(t[k], 2, Len(t[k]) - 1))
        ELSE F[k - 1]
  IN F[Len(t)]

\* the character a percent escape stands for, on the escapes of this model
HexPair(hi, lo) ==
  CASE hi = "7" /\ lo = "7" -> <<"w">>
    [] hi = "7" /\ lo = "8" -> <<"x">>
    [] OTHER -> <<"%", hi, lo>>

\* querystring.unescape: every %XX becomes the character it stands for
RECURSIVE unescape(_)
unescape(s) ==
  IF s = <<>> THEN <<>>
  ELSE IF s[1] = "%" /\ Len(s) >= 3
    THEN HexPair(s[2], s[3]) \o unescape(SubSeq(s, 4, Len(s)))
  ELSE <<s[1]>> \o unescape(Tail(s))

\* _.zipObject(keys, values): keys[k] is mapped to values[k], a repeated key
\* to its last value, a key without value to undefined
zipObject(keys, values) ==
  [n \in Range(keys) |->
     LET k == CHOOSE k \in 1..Len(keys) :
                /\ keys[k] = n
                /\ \A j \in (k + 1)..Len(keys) : keys[j] # n
     IN IF k <= Len(values) THEN values[k] ELSE Nothing]

\* a dispatcher that forgets to decode the captures
ParamsUndecoded(identity, path) ==
  zipObject(paramKeys(identity), Captures(identity, path))

\* lines 104-108: _.zipObject(paramKeys, paramValues.map(unescape))
ParamsOf(identity, path) ==
  LET paramValues == Captures(identity, path)
  IN zipObject(paramKeys(identity), [k \in 1..Len(paramValues) |-> unescape(paramValues[k])])

\* lines 64-108 / 147-193: the route modules are imported, the first one with
\* a function for the method is the route; without one the answer is 405
ImportRoutes ==
  /\ pc = "identified"
  /\ identities # <<>>
  /\ \E modules \in [1..Len(identities) -> ModulePool], outcome, again \in SendOutcomes :
       LET rs == [k \in 1..Len(identities) |->
                    [handler |-> HandlerOf(impl, modules[k], context.method),
                     identity |-> identities[k],
                     module |-> modules[k]]]
           found == FindRoute(rs)
       IN /\ routes' = rs
          /\ IF found = 0
             THEN /\ route' = <<>>
                  /\ SendInTry(MethodNotAllowedResponse, outcome, again)
                  /\ UNCHANGED context
             ELSE /\ route' = <<[handler |-> rs[found].handler, identity |-> rs[found].identity]>>
                  /\ context' = [context EXCEPT
                                   !.params = ParamsOf(rs[found].identity, context.path)]
                  /\ pc' = "routed"
                  /\ UNCHANGED sent
  /\ identitiesModules' = <<>>
  /\ scope' = {"identities", "routes", "route"}
  /\ UNCHANGED <<staticFile, impl, identities, middlewarePaths, middlewares, calls, uncaught,
                 sortArgs, sortRes>>

\* line 112 / 195: await getMiddlewares(pathname); glob lists the middleware
\* files of the project in some order
GetMiddlewares ==
  /\ pc = "routed"
  /\ \E anchors \in SUBSET AnchorPool :
       /\ Cardinality(anchors) <= MaxMw
       /\ \E order \in Orders({MiddlewarePathOf(a) : a \in anchors}) :
            /\ middlewarePaths' = order
            /\ middlewares' = getMiddlewares(impl, route[1].identity.pathname, order)
  /\ identities' = <<>>
  /\ routes' = <<>>
  /\ scope' = {"route", "middlewarePaths", "middlewares"}
  /\ pc' = "chain"
  /\ UNCHANGED <<staticFile, impl, context, identitiesModules, route, calls, sent, uncaught,
                 sortArgs, sortRes>>

\* ------------------------------------------------------ the middleware chain
\* an invocation of a middleware (kind "mw", step = its index in middlewares)
\* or of the route handler (kind "handler")
\*   st       running, returned (its promise fulfilled with ret) or threw
\*   nexts    how often it has called its continuation
\*   timer    its timeoutId: none (not set), armed, cleared or fired
\*   expired  the timer fired when the step had neither answered nor continued
\*   resolved, pstate, pval (loop): the flag and the Promise of lines 114-117
NewCall(kind, step, parent, timer, pstate) ==
  [kind |-> kind, step |-> step, parent |-> parent, st |-> "running", ret |-> Nothing,
   nexts |-> 0, timer |-> timer, expired |-> FALSE,
   resolved |-> FALSE, pstate |-> pstate, pval |-> Nothing]

\* part_000 lines 113-120: the executor of the step's Promise calls the handler
LoopStep(step) == NewCall("mw", step, 0, "none", "pending")

\* part_000 line 144: route.handler(context)
LoopHandler == NewCall("handler", Len(middlewares) + 1, 0, "none", "none")

\* internal.d.ts lines 326-348: callRecursiveMiddlewares on middlewares.slice(step - 1)
\* arms the step's timer and calls its handler, or calls requestHandler
RecStep(step, parent) ==
  IF step > Len(middlewares) THEN NewCall("handler", step, parent, "none", "none")
  ELSE NewCall("mw", step, parent, "armed", "none")

\* line 113 / 197: the chain starts; from here on tunnel uses of the route
\* only the handler function (line 144 / 201), whatever export it came from
StartChain ==
  /\ pc = "chain"
  /\ calls' = IF impl = "rec" THEN <<RecStep(1, 0)>>
              ELSE IF middlewares = <<>> THEN <<LoopHandler>>
              ELSE <<LoopStep(1)>>
  /\ pc' = "await"
  /\ middlewarePaths' = <<>>
  /\ route' = <<[handler |-> [type |-> route[1].handler.type]]>>
  /\ scope' = {"route.handler", "middlewares"}
  /\ UNCHANGED <<staticFile, impl, context, identitiesModules, identities, routes,
                 middlewares, sent, uncaught, sortArgs, sortRes>>

\* clearTimeout(timeoutId): a pending timer is cancelled
Cleared(timer) == IF timer = "armed" THEN "cleared" ELSE timer

\* the continuation of part_000 lines 120-124
NextLoop(c) ==
  /\ calls' = [calls EXCEPT ![c].nexts = @ + 1,
                            ![c].timer = Cleared(@),
                            ![c].resolved = TRUE]
  /\ context' = [context EXCEPT !.custom = merge(@, CustomDataOf(calls[c].step))]

\* the continuation of internal.d.ts lines 339-348
NextRec(c) ==
  /\ Len(calls) < MaxCalls
  /\ calls' = Append([calls EXCEPT ![c].nexts = @ + 1, ![c].timer = Cleared(@)],
                     RecStep(calls[c].step + 1, c))
  /\ context' = [context EXCEPT !.custom = merge(@, CustomDataOf(calls[c].step))]

\* a middleware calls its continuation, while it runs or after it has returned
CallNext ==
  /\ \E c \in 1..Len(calls) :
       /\ calls[c].kind = "mw"
       /\ calls[c].st \in {"running", "returned"}
       /\ calls[c].nexts < MaxNext
       /\ IF impl = "loop" THEN NextLoop(c) ELSE NextRec(c)
  /\ UNCHANGED <<staticFile, impl, pc, scope, identitiesModules, identities, routes, route,
                 middlewarePaths, middlewares, sent, uncaught, sortArgs, sortRes>>

\* part_000 lines 119-132 once the handler's result res is there:
\* if (res || resolved) resolve(res); then the timer is set
ReturnedLoop(call, res) ==
  [call EXCEPT !.st = "returned", !.ret = res,
               !.pstate = IF IsResponse(res) \/ call.resolved THEN "resolved" ELSE @,
               !.pval = IF IsResponse(res) \/ call.resolved THEN res ELSE @,
               !.timer = "armed"]

\* internal.d.ts line 339: the handler's result is the result of the call
ReturnedRec(call, res) == [call EXCEPT !.st = "returned", !.ret = res]

\* part_000 lines 133-135: catch (error) { reject(error) }
ThrewLoop(call, error) ==
  [call EXCEPT !.st = "threw", !.ret = error, !.pstate = "rejected", !.pval = error]

ThrewRec(call, error) == [call EXCEPT !.st = "threw", !.ret = error]

Settle(call, outcome) ==
  IF outcome.threw
  THEN IF impl = "loop" THEN ThrewLoop(call, outcome.value) ELSE ThrewRec(call, outcome.value)
  ELSE IF impl = "loop" THEN ReturnedLoop(call, outcome.value) ELSE ReturnedRec(call, outcome.value)

\* what a middleware can end with by itself: nothing, a response, an Error
OwnOutcomes(c) ==
  { [threw |-> FALSE, value |-> Nothing], [threw |-> FALSE, value |-> OwnResponse(c)],
    [threw |-> TRUE, value |-> ThrownError(c)] }

\* what the route handler can end with: the same, or a thrown value that is a
\* response-shaped object or no object at all
HandlerOutcomes(c) ==
  OwnOutcomes(c) \cup { [threw |-> TRUE, value |-> ThrownResponse(c)],
                        [threw |-> TRUE, value |-> ThrownPrimitive] }

\* return next(...): the outcome of a settled call the continuation started
PassedOutcomes(c) ==
  { [threw |-> calls[d].st = "threw", value |-> calls[d].ret] :
      d \in { d \in 1..Len(calls) : calls[d].parent = c /\ calls[d].st # "running" } }

\* a middleware's handler settles
MiddlewareSettles ==
  /\ \E c \in 1..Len(calls) :
       /\ calls[c].kind = "mw"
       /\ calls[c].st = "running"
       /\ \E outcome \in OwnOutcomes(c) \cup PassedOutcomes(c) :
            calls' = [calls EXCEPT ![c] = Settle(@, outcome)]
  /\ UNCHANGED <<staticFile, impl, pc, context, scope, identitiesModules, identities, routes, route,
                 middlewarePaths, middlewares, sent, uncaught, sortArgs, sortRes>>

\* the route handler settles
HandlerSettles ==
  /\ \E c \in 1..Len(calls) :
       /\ calls[c].kind = "handler"
       /\ calls[c].st = "running"
       /\ \E outcome \in HandlerOutcomes(c) :
            calls' = [calls EXCEPT ![c] = IF outcome.threw THEN ThrewRec(@, outcome.value)
                                          ELSE ReturnedRec(@, outcome.value)]
  /\ UNCHANGED <<staticFile, impl, pc, context, scope, identitiesModules, identities, routes, route,
                 middlewarePaths, middlewares, sent, uncaught, sortArgs, sortRes>>

\* the step had neither returned a response nor called its continuation
Unresolved(call) ==
  /\ call.nexts = 0
  /\ call.st # "threw"
  /\ ~IsResponse(call.ret)

\* part_000 lines 128-132: the timer callback rejects the step's Promise
FiredLoop(call, pathname) ==
  [call EXCEPT !.timer = "fired", !.expired = Unresolved(call),
               !.pstate = IF @ = "pending" THEN "rejected" ELSE @,
               !.pval = IF call.pstate = "pending" THEN TimeoutError(pathname) ELSE @]

\* internal.d.ts lines 335-337: the timer callback throws
FiredRec(call) == [call EXCEPT !.timer = "fired", !.expired = Unresolved(call)]

\* a pending timer expires
TimerFires ==
  /\ \E c \in 1..Len(calls) :
       /\ calls[c].timer = "armed"
       /\ IF impl = "loop"
          THEN /\ calls' = [calls EXCEPT ![c] = FiredLoop(@, middlewares[calls[c].step].pathname)]
               /\ UNCHANGED uncaught
          ELSE /\ calls' = [calls EXCEPT ![c] = FiredRec(@)]
               /\ uncaught' = uncaught \cup {TimeoutError(middlewares[calls[c].step].pathname)}
  /\ UNCHANGED <<staticFile, impl, pc, context, scope, identitiesModules, identities, routes, route,
                 middlewarePaths, middlewares, sent, sortArgs, sortRes>>

\* the invocation tunnel awaits: the loop's current step or handler, or the
\* outermost callRecursiveMiddlewares
Awaited == IF impl = "loop" THEN Len(calls) ELSE 1

\* whether, and with what, the awaited promise is settled
AwaitedState ==
  LET call == calls[Awaited]
  IN IF impl = "loop" /\ call.kind = "mw"
     THEN [settled |-> call.pstate # "pending", threw |-> call.pstate = "rejected",
           value |-> call.pval]
     ELSE [settled |-> call.st # "running", threw |-> call.st = "threw", value |-> call.ret]

\* part_000 lines 138-156, internal.d.ts lines 204-214: tunnel goes on after
\* the promise it awaits has settled
ChainSettled ==
  /\ pc = "await"
  /\ AwaitedState.settled
  /\ \E outcome, again \in SendOutcomes :
     LET a == AwaitedState
         more == impl = "loop" /\ calls[Awaited].kind = "mw"
     IN IF a.threw
        THEN /\ Catch(a.value, outcome)
             /\ UNCHANGED calls
        ELSE IF IsResponse(a.value)
        THEN /\ SendInTry(a.value, outcome, again)
             /\ UNCHANGED calls
        ELSE IF more
        THEN /\ calls' = Append(calls, IF calls[Awaited].step < Len(middlewares)
                                       THEN LoopStep(calls[Awaited].step + 1)
                                       ELSE LoopHandler)
             /\ UNCHANGED <<sent, pc>>
        ELSE /\ SendInTry(NoContentResponse, outcome, again)
             /\ UNCHANGED calls
  /\ UNCHANGED <<staticFile, impl, context, scope, identitiesModules, identities, routes, route,
                 middlewarePaths, middlewares, uncaught, sortArgs, sortRes>>

Next ==
  \/ StaticFind
  \/ StaticLookup
  \/ GetIdentities
  \/ NotFound
  \/ ImportRoutes
  \/ GetMiddlewares
  \/ StartChain
  \/ CallNext
  \/ MiddlewareSettles
  \/ HandlerSettles
  \/ TimerFires
  \/ ChainSettled

Spec == Init /\ [][Next]_vars

\* what the event loop guarantees once the chain has been started: the
\* continuation of tunnel runs when the promise it awaits has settled, a
\* pending timer expires, and a function that has been called returns or
\* throws. Whether and when a middleware calls its continuation is up to the
\* middleware.
Fairness ==
  /\ WF_vars(ChainSettled)
  /\ WF_vars(MiddlewareSettles \/ HandlerSettles)
  /\ WF_vars(TimerFires)

SpecLive == Init /\ [][Next]_vars /\ Fairness

\* ------------------------------------------------------------------ claims
\* the sign of a comparator result
Sign(n) == IF n < 0 THEN -1 ELSE IF n > 0 THEN 1 ELSE 0

\* C7: sortCompiledRoutes is a total, antisymmetric and transitive comparator
\* over any templates, also of different segment counts: compare(a,b) and
\* compare(b,a) have opposite signs (or are both zero), and compare(a,b) <= 0
\* with compare(b,c) <= 0 implies compare(a,c) <= 0.
C7_ComparatorIsOrder ==
  sortRes.done =>
    /\ Sign(sortRes.ab) = -Sign(sortRes.ba)
    /\ (sortRes.ab <= 0 /\ sortRes.bc <= 0) => sortRes.ac <= 0

\* ------------------------------------------------- notions the claims use
MwCalls == { c \in 1..Len(calls) : calls[c].kind = "mw" }

HandlerCalls == { c \in 1..Len(calls) : calls[c].kind = "handler" }

\* the step answered with a response of its own
ReturnedOwnResponse(c) == calls[c].st = "returned" /\ calls[c].ret = OwnResponse(c)

\* the directory a discovered middleware.mjs lies in
AnchorOf(file) == CHOOSE a \in AnchorPool : MiddlewarePathOf(a) = file

\* root is depth 0, a is depth 1, a/b is depth 2
Depth(anchor) == IF anchor = <<>> THEN 0 ELSE Len(Split(anchor))

\* the root, then every nested prefix of 1, 2, ... segments of the pathname
CumulativePrefixes(pathname) ==
  { JoinSlash(SubSeq(Split(pathname), 1, n)) : n \in 0..Len(Split(pathname)) }

\* tunnel has handed a response to the sink
Answered == sent # <<>>

\* C1: if step k returns a response of its own (whether or not it also called
\* its continuation), no step after k and no route handler is executed, and
\* the response handed to the sink is the one step k returned.
C1_ShortCircuit ==
  \A c \in MwCalls :
    ReturnedOwnResponse(c) =>
      /\ \A d \in 1..Len(calls) : calls[d].step <= calls[c].step
      /\ sent # <<>> => sent[1] = calls[c].ret

\* every step has called its continuation before its timer expired, and no
\* step has answered or thrown
AllContinued ==
  /\ middlewares # <<>>
  /\ calls # <<>>
  /\ \A k \in 1..Len(middlewares) : \E c \in MwCalls : calls[c].step = k /\ calls[c].nexts > 0
  /\ \A c \in MwCalls :
       /\ ~ReturnedOwnResponse(c)
       /\ calls[c].st # "threw"
       /\ ~calls[c].expired

\* C2: when every step calls its continuation and none returns a response, the
\* route handler is invoked exactly once, and only after all steps resolved.
C2_HandlerExactlyOnce ==
  /\ AllContinued => Cardinality(HandlerCalls) <= 1
  /\ (AllContinued /\ Answered) => Cardinality(HandlerCalls) = 1
  /\ (middlewares # <<>> /\ HandlerCalls # {}) =>
       \A k \in 1..Len(middlewares) : \E c \in MwCalls : calls[c].step = k /\ calls[c].nexts > 0

\* C3: a step whose timer expires before it has answered or continued fails
\* the request: the only answer the request gets is the 500 response whose
\* message names that middleware's pathname.
C3_TimeoutFailsRequest ==
  \A c \in MwCalls :
    calls[c].expired =>
      (sent # <<>> =>
         sent[1] = InternalErrorResponse(TimeoutError(middlewares[calls[c].step].pathname).message))

\* C4: once a step has produced a response or called its continuation, its
\* timer is not pending any more.
C4_TimerCancelledOnResolve ==
  \A c \in MwCalls :
    (ReturnedOwnResponse(c) \/ calls[c].nexts > 0) => calls[c].timer # "armed"

\* C5: getMiddlewares selects a discovered middleware if and only if its
\* anchor is one of the cumulative prefixes of the route's pathname.
C5_AppliesIffPrefix ==
  ("middlewarePaths" \in scope) =>
    { middlewares[k].file : k \in 1..Len(middlewares) } =
      { file \in Range(middlewarePaths) :
          AnchorOf(file) \in CumulativePrefixes(route[1].identity.pathname) }

\* C6: the middleware are executed in order of increasing anchor depth,
\* whatever the discovery order: of two steps, the one started later has the
\* more nested anchor.
C6_IncreasingDepth ==
  \A c, d \in MwCalls :
    (c < d /\ calls[c].step # calls[d].step) =>
      Depth(AnchorOf(middlewares[calls[c].step].file)) < Depth(AnchorOf(middlewares[calls[d].step].file))

\* C8: the first identity of getIdentities is the same for every order in
\* which the identity modules are discovered.
C8_FirstMatchOrderIndependent ==
  ("identitiesModules" \in scope /\ identities # <<>>) =>
    \A order \in Orders(Range(identitiesModules)) :
      getIdentities(context.path, order)[1] = identities[1]

\* a route module exposes a usable handler for the method: directly, as the
\* any-method handler or as the default handler
Usable(routeModule, method) ==
  \/ routeModule[method] = "function"
  \/ routeModule["ALL"] = "function"
  \/ routeModule["default"] = "function"

\* C9: once route resolution has run, zero structural matches are answered
\* with 404, and structural matches none of which exposes a usable handler
\* for the method are answered with 405; in both cases no middleware and no
\* handler is executed.
C9_NotFoundOrNotAllowed ==
  /\ ("identities" \in scope /\ identities = <<>> /\ pc # "identified") =>
       /\ sent # <<>> /\ sent[1].status = 404 /\ sent[1].origin = "tunnel"
       /\ calls = <<>>
  /\ ("routes" \in scope /\ \A k \in 1..Len(routes) : ~Usable(routes[k].module, context.method)) =>
       /\ sent # <<>> /\ sent[1].status = 405 /\ sent[1].origin = "tunnel"
       /\ calls = <<>>

\* a request with structural matches but no usable handler has been answered
C9_Witness ==
  /\ pc = "done"
  /\ "routes" \in scope /\ Len(routes) = 2
  /\ \A k \in 1..Len(routes) : ~Usable(routes[k].module, context.method)
  /\ sent = <<MethodNotAllowedResponse>>

\* the lookup of the claim: the method's handler, else ALL, else default
ClaimedHandler(routeModule, method) ==
  IF routeModule[method] # "undefined" THEN Export(routeModule, method)
  ELSE IF routeModule["ALL"] # "undefined" THEN Export(routeModule, "ALL")
  ELSE Export(routeModule, "default")

\* C10: the route chosen is the first structural match, in specificity order,
\* for which the lookup method, else ALL, else default yields a function.
C10_FirstUsableMatch ==
  ("routes" \in scope) =>
    LET hits == { k \in 1..Len(routes) :
                    ClaimedHandler(routes[k].module, context.method).type = "function" }
    IN /\ \A k \in 1..Len(routes) : routes[k].identity = identities[k]
       /\ IF hits = {} THEN route = <<>>
          ELSE LET first == CHOOSE k \in hits : \A j \in hits : k <= j
               IN /\ route # <<>>
                  /\ route[1].identity = routes[first].identity
                  /\ route[1].handler = ClaimedHandler(routes[first].module, context.method)

\* C11: when globFind has found a file for the path in the static folder, the
\* next step of tunnel answers the request with that file and ends: route
\* resolution is not reached, whatever the file is.
C11_StaticBeforeRoutes ==
  [][(pc = "static" /\ staticFile # "none") =>
       (pc' \in {"done", "rejected"} /\ sent' = <<StaticResponse>>)]_vars

\* tunnel has returned or has rejected
Finished == pc \in {"done", "rejected"}

\* C12: a failure thrown by a middleware or by the route handler, whatever the
\* thrown value is, is answered: an Error with the 500 response carrying its
\* message, a response-shaped object with that object, any other value with
\* some response.
C12_FailuresBecomeResponses ==
  (Finished /\ calls # <<>> /\ AwaitedState.threw) =>
    /\ sent # <<>>
    /\ AwaitedState.value.kind = "Error" =>
         sent[1] = InternalErrorResponse(AwaitedState.value.message)
    /\ AwaitedState.value.kind = "response" => sent[1] = AwaitedState.value

\* the bindings the claim names for a chosen identity: the name of every
\* bracketed segment of the template is mapped to the decoded segment of the
\* path at the same position, and nothing else is mapped
IsBindingOf(params, identity, path) ==
  LET t == Split(identity.pathname)
      p == Split(path)
      dyn == { j \in 1..Len(t) : IsDynamicAt(t, j) }
      name(j) == SubSeq(t[j], 2, Len(t[j]) - 1)
  IN /\ DOMAIN params = { name(j) : j \in dyn }
     /\ \A j \in dyn : params[name(j)] = unescape(p[j])

\* C13: context.params maps exactly the paramKeys of the chosen identity to the
\* decoded captures of the path under that identity, and is empty when the
\* chosen identity is a static template; the route handler runs with such a
\* binding.
C13_ParamsOfChosenIdentity ==
  /\ ("route" \in scope /\ route # <<>>) =>
       /\ IsBindingOf(context.params, route[1].identity, context.path)
       /\ (\A j \in 1..Len(Split(route[1].identity.pathname)) :
             ~IsDynamicAt(Split(route[1].identity.pathname), j)) => context.params = <<>>
  /\ HandlerCalls # {} =>
       \E i \in IdentityPool :
          paramExtractTest(i, context.path) /\ IsBindingOf(context.params, i, context.path)

\* the path a/%78 has been routed to the template a/[i], with i bound to x
C13_Witness ==
  /\ pc = "chain"
  /\ context.path = <<"a", "/", "%", "7", "8">>
  /\ route[1].identity.pathname = <<"a", "/", "[", "i", "]">>
  /\ context.params = [n \in {<<"i">>} |-> <<"x">>]

\* every invocation of a middleware has called its continuation at most once
ContinuedOnce == \A c \in MwCalls : calls[c].nexts <= 1

\* C14: when the route handler has been started by a chain of N steps that
\* each invoked their continuation once with their data d_k, context.custom is
\* the initial custom data deeply merged with d_1, ..., d_N in that order: the
\* nested keys of all steps are there and the scalar is that of step N.
C14_CustomMergedInOrder ==
  (HandlerCalls # {} /\ ContinuedOnce) =>
    context.custom =
      IF middlewares = <<>> THEN InitialCustom
      ELSE [last |-> Len(middlewares), seen |-> 1..Len(middlewares)]

\* a handler has been started after two steps that each continued once
C14_Witness ==
  /\ HandlerCalls # {}
  /\ ContinuedOnce
  /\ Len(middlewares) = 2
  /\ context.custom = [last |-> 2, seen |-> {1, 2}]

\* the invocations that have been started and have not finished
Running == { c \in 1..Len(calls) : calls[c].st = "running" }

\* C15: the pipeline is strictly serial: at no time are two invocations
\* (two middleware steps, or a middleware step and the handler) running, so
\* a step's invocation has finished before a later step or the handler begins.
C15_StrictlySerial == Cardinality(Running) <= 1

\* C16: for one call of tunnel at most one response is handed to the response
\* sink, also when sending a response fails.
C16_AtMostOneResponse == Len(sent) <= 1

\* the first segment index at which both templates have a segment, one a
\* literal and the other a bracketed one; 0 when there is none
FirstMixedIndex(a, b) ==
  LET ta == Split(a.pathname)
      tb == Split(b.pathname)
      mixed == { j \in 1..Len(ta) : j <= Len(tb) /\ IsDynamicAt(ta, j) # IsDynamicAt(tb, j) }
  IN IF mixed = {} THEN 0 ELSE CHOOSE j \in mixed : \A k \in mixed : j <= k

\* the order the claim's rules give: -1 when a sorts first, 1 when b does
ClaimedOrder(a, b) ==
  LET j == FirstMixedIndex(a, b)
  IN IF j # 0 THEN (IF IsDynamicAt(Split(a.pathname), j) THEN 1 ELSE -1)
     ELSE IF StrLess(toLowerCase(a.route), toLowerCase(b.route)) THEN -1
     ELSE IF StrLess(toLowerCase(b.route), toLowerCase(a.route)) THEN 1
     ELSE Sign(Len(b.pathname) - Len(a.pathname))

\* C17: sortCompiledRoutes orders two templates by the rules in sequence: the
\* literal segment before the bracketed one at the first index where they
\* differ in kind, else the smaller route string (case-insensitive), else the
\* longer pathname.
C17_OrderedByRules ==
  sortRes.done => Sign(sortRes.ab) = ClaimedOrder(sortArgs.a, sortArgs.b)

\* a step has called its continuation before its timer expired and has
\* neither answered nor thrown
ContinuedInTime ==
  \E c \in MwCalls :
     /\ calls[c].nexts > 0
     /\ ~calls[c].expired
     /\ ~ReturnedOwnResponse(c)
     /\ calls[c].st # "threw"

\* C18: whenever a step has called its continuation in time and has returned
\* no response, whether it called it before or after its function returned,
\* the chain goes on and tunnel eventually ends the request.
C18_ContinuationLeadsOn == ContinuedInTime ~> Finished

\* C19: when every applicable middleware has called its continuation (once)
\* and none has answered, thrown or timed out, and the route handler has
\* returned, the response handed to the sink is the handler's result, and is
\* the 204 response exactly when the handler returned nothing.
C19_HandlerResultIsResponse ==
  \A h \in HandlerCalls :
    ( /\ middlewares = <<>> \/ AllContinued
      /\ ContinuedOnce
      /\ calls[h].st = "returned"
      /\ sent # <<>> ) =>
        sent[1] = IF IsResponse(calls[h].ret) THEN calls[h].ret ELSE NoContentResponse

\* the timer of some step has expired before the step answered or continued
SomeStepExpired == \E c \in MwCalls : calls[c].expired

\* C20: once a step's timer has expired, no further middleware step and no
\* handler is started and the request context is not changed, also when the
\* step calls its continuation afterwards.
C20_NothingAfterTimeout ==
  [][SomeStepExpired => (Len(calls') = Len(calls) /\ context' = context)]_vars

\* C21: whatever the middleware do, also when one calls its continuation more
\* than once, the route handler is invoked at most once and every middleware
\* step is started at most once for a request.
C21_EachStepAtMostOnce ==
  /\ Cardinality(HandlerCalls) <= 1
  /\ \A c, d \in MwCalls : calls[c].step = calls[d].step => c = d

====
